---------------------------- MODULE Spec2Model ----------------------------
(***************************************************************************)
(* A model of modules/prediction/evaluator/vehicle/cruise_mlp_evaluator.cc *)
(* (CruiseMLPEvaluator): the feature extractors (obstacle block,           *)
(* interaction block, lane block) as operators, and Evaluate as a          *)
(* state machine over the lane sequences of one obstacle; and two calls of  *)
(* Evaluate at once, on two obstacles of one container.                    *)
(*                                                                         *)
(* Numbers.  A C++ double is modelled as an exact rational <<n, d>>, d > 0, *)
(* in lowest terms; Dbl(k) is the double of the integer k.  Angles are     *)
(* counted in quarter turns (1 = pi/2), so that the rotation done by       *)
(* WorldCoordToObjCoord is exact on integer coordinates.  Probabilities    *)
(* and times written onto a lane sequence are integers in hundredths.      *)
(***************************************************************************)
EXTENDS Integers, Sequences, FiniteSets, TLC

VARIABLES
    offline,        \* FLAGS_prediction_offline_mode
    frame_length,   \* FLAGS_cruise_historical_frame_length
    obstacle,       \* *obstacle_ptr: the obstacle handed to Evaluate
    store,          \* the ObstaclesContainer: id -> latest feature of that obstacle
    pc,             \* position of the call
    i,              \* Evaluate's loop variable (0-based, as in the source)
    feature_values, \* the std::vector<double> the current call fills
    runs,           \* the calls of go_model_ptr_->Run / cutin_model_ptr_->Run, in order
    sink,           \* FeatureOutput: the features inserted, in order
    container,      \* two calls at once: the ObstaclesContainer, id -> obstacle
    calls,          \* two calls at once: id -> the locals of Evaluate on that obstacle
    accesses,       \* two calls at once: the reads and writes done so far
    before          \* two calls at once: the container as the calls found it

\* The variables of the calls that run at once.
parvars == <<container, calls, accesses, before>>

vars == <<offline, frame_length, obstacle, store, pc, i, feature_values, runs, sink,
          parvars>>

\* No calls run at once.
NoCalls == container = <<>> /\ calls = <<>> /\ accesses = {} /\ before = <<>>

-----------------------------------------------------------------------------
(* Bounds of the model. *)

\* Lane points per lane segment in the inputs.
MaxSegPoints == 3

\* Candidate lane sequences of the obstacle handed to Evaluate.
MaxSeq == 3

\* NearbyObstacle entries of a lane sequence.
MaxNearby == 3

\* Features in the history of an obstacle.
MaxHist == 5

\* LANE_POINTS_SIZE is declared in cruise_mlp_evaluator.h; the model keeps it
\* as a parameter, small enough to enumerate lane sequences that fall short
\* of it, fill it exactly and exceed it.
LANE_POINTS_SIZE == 5

\* Values pushed per lane point (lines 620-624, 638-642); declared in
\* cruise_mlp_evaluator.h.
SINGLE_LANE_FEATURE_SIZE == 4

\* Values of the interaction block (lines 552-577); declared in
\* cruise_mlp_evaluator.h.
INTERACTION_FEATURE_SIZE == 8

\* The frames of the relative-motion window the evaluator is built for.
HistFrames == 2

\* OBSTACLE_FEATURE_SIZE is declared in cruise_mlp_evaluator.h: the 23 values
\* of the summary and nine for each frame of the window.
OBSTACLE_FEATURE_SIZE == 23 + 9 * HistFrames

\* FLAGS_default_s_if_no_obstacle_in_lane_sequence and
\* FLAGS_default_l_if_no_obstacle_in_lane_sequence: configuration, set outside
\* this file; the inputs are enumerated around them.
default_s == 3
default_l == 2

\* The values a read through a dangling pointer is given in the model.
GarbageValues == {7}

\* The null pointer GetObstacle returns for an id it does not hold.
NullPtr == [null |-> TRUE]

\* FLAGS_prediction_trajectory_time_length: how far back, in time units, the
\* history is read. Configuration, set outside this file.
prediction_trajectory_time_length == 12

-----------------------------------------------------------------------------
(* Exact arithmetic for doubles. *)

Abs(x) == IF x < 0 THEN -x ELSE x

RECURSIVE GCD(_, _)
GCD(a, b) == IF b = 0 THEN a ELSE GCD(b, a % b)

\* The rational n/d (d # 0) in lowest terms with a positive denominator.
Frac(n, d) ==
    LET g == GCD(Abs(n), Abs(d))
        s == IF d < 0 THEN -1 ELSE 1
    IN  <<(s * n) \div g, (s * d) \div g>>

Dbl(k) == <<k, 1>>
Add(a, b) == Frac(a[1] * b[2] + b[1] * a[2], a[2] * b[2])
Sub(a, b) == Frac(a[1] * b[2] - b[1] * a[2], a[2] * b[2])
Mul(a, b) == Frac(a[1] * b[1], a[2] * b[2])
Div(a, b) == Frac(a[1] * b[2], a[2] * b[1])
Less(a, b) == a[1] * b[2] < b[1] * a[2]

\* All sequences over S of length at most n.
SeqsUpTo(S, n) == UNION {[1..k -> S] : k \in 0..n}

\* nums[k] with the source's 0-based index.
At(nums, k) == nums[k + 1]

-----------------------------------------------------------------------------
(* Geometry (lines 85-102). *)

Cos4(q) == CASE q % 4 = 0 -> 1 [] q % 4 = 1 -> 0 [] q % 4 = 2 -> -1 [] OTHER -> 0
Sin4(q) == CASE q % 4 = 0 -> 0 [] q % 4 = 1 -> 1 [] q % 4 = 2 -> 0 [] OTHER -> -1

\* rho*cos(theta), rho*sin(theta) with theta = atan2(y_diff, x_diff) - angle:
\* the offset rotated by -angle.
WorldCoordToObjCoord(input_world_coord, obj_world_coord, obj_world_angle) ==
    LET x_diff == input_world_coord[1] - obj_world_coord[1]
        y_diff == input_world_coord[2] - obj_world_coord[2]
    IN  <<x_diff * Cos4(obj_world_angle) + y_diff * Sin4(obj_world_angle),
          y_diff * Cos4(obj_world_angle) - x_diff * Sin4(obj_world_angle)>>

\* common::math::NormalizeAngle (modules/common/math), in quarter turns: the
\* angle brought into (-2, 2], that is (-pi, pi].
NormalizeAngle(angle) == 2 - ((2 - angle) % 4)

WorldAngleToObjAngle(input_world_angle, obj_world_angle) ==
    NormalizeAngle(input_world_angle - obj_world_angle)

-----------------------------------------------------------------------------
(* SetLaneFeatureValues (lines 580-646). *)

LaneFeatureSize == SINGLE_LANE_FEATURE_SIZE * LANE_POINTS_SIZE

\* The four values pushed for one lane point (lines 613-624).
LanePointValues(feature, lane_point) ==
    LET relative_s_l == WorldCoordToObjCoord(lane_point.position,
                            feature.position, feature.velocity_heading)
        relative_ang == WorldAngleToObjAngle(lane_point.heading,
                            feature.velocity_heading)
    IN  <<Dbl(relative_s_l[2]), Dbl(relative_s_l[1]), Dbl(relative_ang),
          Dbl(lane_point.kappa)>>

\* The inner loop over the lane points of one segment (lines 602-625).
RECURSIVE LanePointLoop(_, _, _, _)
LanePointLoop(feature, lane_segment, j, fv) ==
    IF j >= Len(lane_segment) THEN fv
    ELSE IF Len(fv) >= LaneFeatureSize THEN fv
    ELSE IF ~At(lane_segment, j).has_position
         THEN LanePointLoop(feature, lane_segment, j + 1, fv)
    ELSE LanePointLoop(feature, lane_segment, j + 1,
             fv \o LanePointValues(feature, At(lane_segment, j)))

\* The outer loop over the lane segments (lines 597-626).
RECURSIVE LaneSegmentLoop(_, _, _, _)
LaneSegmentLoop(feature, lane_sequence, k, fv) ==
    IF k >= Len(lane_sequence.lane_segment) THEN fv
    ELSE IF Len(fv) >= LaneFeatureSize THEN fv
    ELSE LaneSegmentLoop(feature, lane_sequence, k + 1,
             LanePointLoop(feature, At(lane_sequence.lane_segment, k), 0, fv))

\* A slip: an if for the while, so that one point at most is padded.
LaneExtrapolateOnce(fv) ==
    IF Len(fv) >= 10 /\ Len(fv) < LaneFeatureSize
    THEN fv \o <<Sub(Mul(Dbl(2), At(fv, Len(fv) - 5)), At(fv, Len(fv) - 10)),
                 Sub(Mul(Dbl(2), At(fv, Len(fv) - 4)), At(fv, Len(fv) - 9)),
                 At(fv, Len(fv) - 3), Dbl(0)>>
    ELSE fv

\* The padding loop (lines 629-645).
RECURSIVE LaneExtrapolate(_)
LaneExtrapolate(fv) ==
    LET size == Len(fv)
    IN  IF size >= 10 /\ size < LaneFeatureSize
        THEN LET relative_l_new == Sub(Mul(Dbl(2), At(fv, size - 5)), At(fv, size - 10))
                 relative_s_new == Sub(Mul(Dbl(2), At(fv, size - 4)), At(fv, size - 9))
                 relative_ang_new == At(fv, size - 3)
             IN  LaneExtrapolate(fv \o <<relative_l_new, relative_s_new,
                                         relative_ang_new, Dbl(0)>>)
        ELSE fv

SetLaneFeatureValues(obs, lane_sequence) ==
    LET feature == obs.history[1]
    IN  IF ~feature.init THEN <<>>
        ELSE IF ~feature.has_position THEN <<>>
        ELSE LaneExtrapolate(LaneSegmentLoop(feature, lane_sequence, 0, <<>>))

-----------------------------------------------------------------------------
(* SetInteractionFeatureValues (lines 521-578). *)

\* A slip: <= and >= for < and >, so that of two entries at the same s the
\* later one is taken, and one at the default distance counts.
RECURSIVE NearbyScanLast(_, _, _, _)
NearbyScanLast(nearby, k, forward_obstacle, backward_obstacle) ==
    IF k >= Len(nearby) THEN [fwd |-> forward_obstacle, bwd |-> backward_obstacle]
    ELSE IF At(nearby, k).s < 0
         THEN NearbyScanLast(nearby, k + 1, forward_obstacle,
                  IF At(nearby, k).s >= backward_obstacle.s
                  THEN [has_id |-> TRUE, id |-> At(nearby, k).id,
                        s |-> At(nearby, k).s, l |-> At(nearby, k).l]
                  ELSE backward_obstacle)
         ELSE NearbyScanLast(nearby, k + 1,
                  IF At(nearby, k).s <= forward_obstacle.s
                  THEN [has_id |-> TRUE, id |-> At(nearby, k).id,
                        s |-> At(nearby, k).s, l |-> At(nearby, k).l]
                  ELSE forward_obstacle,
                  backward_obstacle)

\* The scan for the nearest forward and backward obstacle (lines 526-547).
\* A NearbyObstacle message is [has_id, id, s, l].
RECURSIVE NearbyScan(_, _, _, _)
NearbyScan(nearby, k, forward_obstacle, backward_obstacle) ==
    IF k >= Len(nearby) THEN [fwd |-> forward_obstacle, bwd |-> backward_obstacle]
    ELSE LET nearby_obstacle == At(nearby, k)
             taken == [has_id |-> TRUE, id |-> nearby_obstacle.id,
                       s |-> nearby_obstacle.s, l |-> nearby_obstacle.l]
         IN  IF nearby_obstacle.s < 0
             THEN IF nearby_obstacle.s > backward_obstacle.s
                  THEN NearbyScan(nearby, k + 1, forward_obstacle, taken)
                  ELSE NearbyScan(nearby, k + 1, forward_obstacle, backward_obstacle)
             ELSE IF nearby_obstacle.s < forward_obstacle.s
                  THEN NearbyScan(nearby, k + 1, taken, backward_obstacle)
                  ELSE NearbyScan(nearby, k + 1, forward_obstacle, backward_obstacle)

NearestObstacles(lane_sequence) ==
    NearbyScan(lane_sequence.nearby_obstacle, 0,
        [has_id |-> FALSE, id |-> 0, s |-> default_s, l |-> default_l],
        [has_id |-> FALSE, id |-> 0, s |-> -default_s, l |-> default_l])

\* ObstaclesContainer::GetObstacle: the obstacle of that id, or a null pointer.
GetObstacle(st, id) ==
    IF id \in DOMAIN st THEN [null |-> FALSE, latest_feature |-> st[id]] ELSE NullPtr

\* What forward_obs_ptr->latest_feature() followed by the reads of length()
\* and speed() can do when the pointer is null: undefined behaviour, which
\* ends the process (a segmentation fault) or yields whatever the memory holds.
NullDerefOutcomes ==
    {[crash |-> TRUE, length |-> 0, speed |-> 0]} \cup
    {[crash |-> FALSE, length |-> g, speed |-> g] : g \in GarbageValues}

\* Lines 552-563 and 566-577: the four values pushed for one direction, or
\* the two pushed before the process ends. ub is the outcome of the
\* dereference should the pointer be null.
DirectionValues(st, nearest, ub) ==
    LET head == <<Dbl(nearest.s), Dbl(nearest.l)>>
    IN  IF ~nearest.has_id
        THEN [crashed |-> FALSE, null_read |-> FALSE,
              values |-> head \o <<Dbl(0), Dbl(0)>>]
        ELSE LET obs_ptr == GetObstacle(st, nearest.id)
             IN  IF ~obs_ptr.null
                 THEN [crashed |-> FALSE, null_read |-> FALSE,
                       values |-> head \o <<Dbl(obs_ptr.latest_feature.length),
                                             Dbl(obs_ptr.latest_feature.speed)>>]
                 ELSE IF ub.crash
                 THEN [crashed |-> TRUE, null_read |-> TRUE, values |-> head]
                 ELSE [crashed |-> FALSE, null_read |-> TRUE,
                       values |-> head \o <<Dbl(ub.length), Dbl(ub.speed)>>]

\* The call: [crashed, null_read, values]. crashed: the process ended inside
\* the call; null_read: a null obstacle pointer was dereferenced.
SetInteractionFeatureValues(st, lane_sequence, ub_fwd, ub_bwd) ==
    LET nearest == NearestObstacles(lane_sequence)
        fwd == DirectionValues(st, nearest.fwd, ub_fwd)
        bwd == DirectionValues(st, nearest.bwd, ub_bwd)
    IN  IF fwd.crashed THEN fwd
        ELSE [crashed |-> bwd.crashed,
              null_read |-> fwd.null_read \/ bwd.null_read,
              values |-> fwd.values \o bwd.values]

-----------------------------------------------------------------------------
(* SetObstacleFeatureValues (lines 244-519). *)

\* FLAGS_double_precision, the small number added to a time difference.
double_precision == Frac(1, 1000000)

RECURSIVE MeanSum(_, _, _)
MeanSum(nums, k, end) ==
    IF k <= end /\ k < Len(nums)
    THEN LET rest == MeanSum(nums, k + 1, end)
         IN  [sum |-> Add(At(nums, k), rest.sum), count |-> rest.count + 1]
    ELSE [sum |-> Dbl(0), count |-> 0]

\* ComputeMean (lines 42-50).
ComputeMean(nums, start, end) ==
    LET r == MeanSum(nums, start, end)
    IN  IF r.count = 0 THEN Dbl(0) ELSE Div(r.sum, Dbl(r.count))

\* The locals of SetObstacleFeatureValues as they are before the loop
\* (lines 250-281).
ObstacleLocals(obs, W) ==
    [thetas |-> <<>>, lane_ls |-> <<>>, dist_lbs |-> <<>>, dist_rbs |-> <<>>,
     lane_types |-> <<>>, speeds |-> <<>>, timestamps |-> <<>>,
     has_history |-> [k \in 1..W |-> 1],
     pos_history |-> [k \in 1..W |-> <<0, 0>>],
     vel_history |-> [k \in 1..W |-> <<0, 0>>],
     acc_history |-> [k \in 1..W |-> <<0, 0>>],
     vel_heading_history |-> [k \in 1..W |-> 0],
     vel_heading_changing_rate_history |-> [k \in 1..W |-> Dbl(0)],
     count |-> 0,
     prev_timestamp |-> obs.history[1].timestamp]

\* obstacle_ptr->timestamp(): the time of the latest feature.
ObstacleTimestamp(obs) == obs.history[1].timestamp

\* Lines 297-311: the samples of a feature that has a lane feature.
LaneSamples(feature, loc) ==
    IF feature.has_lane /\ feature.has_lane_feature
    THEN [loc EXCEPT
            !.thetas = Append(@, Dbl(feature.angle_diff)),
            !.lane_ls = Append(@, Dbl(feature.lane_l)),
            !.dist_lbs = Append(@, Dbl(feature.dist_to_left_boundary)),
            !.dist_rbs = Append(@, Dbl(feature.dist_to_right_boundary)),
            !.lane_types = Append(@, feature.lane_turn_type),
            !.timestamps = Append(@, Dbl(feature.timestamp)),
            !.speeds = Append(@, Dbl(feature.speed)),
            !.count = @ + 1]
    ELSE loc

\* Lines 321-327.
FramePosition(feature, k, cur, loc) ==
    IF feature.has_position
    THEN [loc EXCEPT !.pos_history[k + 1] =
            WorldCoordToObjCoord(feature.position, cur.position, cur.velocity_heading)]
    ELSE [loc EXCEPT !.has_history[k + 1] = 0]

\* Lines 328-338.
FrameVelocity(feature, k, cur, loc) ==
    IF feature.has_velocity
    THEN LET vel_end == WorldCoordToObjCoord(feature.velocity, cur.position,
                                             cur.velocity_heading)
             vel_begin == WorldCoordToObjCoord(<<0, 0>>, cur.position,
                                               cur.velocity_heading)
         IN  [loc EXCEPT !.vel_history[k + 1] =
                <<vel_end[1] - vel_begin[1], vel_end[2] - vel_begin[2]>>]
    ELSE [loc EXCEPT !.has_history[k + 1] = 0]

\* Lines 339-350.
FrameAcceleration(feature, k, cur, loc) ==
    IF feature.has_acceleration
    THEN LET acc_end == WorldCoordToObjCoord(feature.acceleration, cur.position,
                                             cur.velocity_heading)
             acc_begin == WorldCoordToObjCoord(<<0, 0>>, cur.position,
                                               cur.velocity_heading)
         IN  [loc EXCEPT !.acc_history[k + 1] =
                <<acc_end[1] - acc_begin[1], acc_end[2] - acc_begin[2]>>]
    ELSE [loc EXCEPT !.has_history[k + 1] = 0]

\* Lines 351-362.
FrameHeading(feature, k, cur, loc) ==
    IF feature.has_velocity_heading
    THEN LET h == WorldAngleToObjAngle(feature.velocity_heading, cur.velocity_heading)
             set == [loc EXCEPT !.vel_heading_history[k + 1] = h]
         IN  IF k # 0
             THEN [set EXCEPT
                     !.vel_heading_changing_rate_history[k + 1] =
                        Div(Dbl(At(loc.vel_heading_history, k - 1) - h),
                            Add(double_precision,
                                Dbl(feature.timestamp - loc.prev_timestamp))),
                     !.prev_timestamp = feature.timestamp]
             ELSE set
    ELSE [loc EXCEPT !.has_history[k + 1] = 0]

\* Lines 313-362: the frame of the relative-motion window.
WindowFrame(feature, k, W, cur, loc) ==
    IF k >= W THEN loc
    ELSE IF k # 0 /\ At(loc.has_history, k - 1) = 0
         THEN [loc EXCEPT !.has_history[k + 1] = 0]
    ELSE FrameHeading(feature, k, cur,
            FrameAcceleration(feature, k, cur,
                FrameVelocity(feature, k, cur,
                    FramePosition(feature, k, cur, loc))))

\* A slip: the break at the time horizon left out.
RECURSIVE HistoryLoopNoHorizon(_, _, _, _)
HistoryLoopNoHorizon(obs, W, k, loc) ==
    IF k >= Len(obs.history) THEN loc
    ELSE IF ~At(obs.history, k).init THEN HistoryLoopNoHorizon(obs, W, k + 1, loc)
    ELSE HistoryLoopNoHorizon(obs, W, k + 1,
             WindowFrame(At(obs.history, k), k, W, obs.history[1],
                         LaneSamples(At(obs.history, k), loc)))

\* The loop over the history, most recent first (lines 286-363).
RECURSIVE HistoryLoop(_, _, _, _)
HistoryLoop(obs, W, k, loc) ==
    IF k >= Len(obs.history) THEN loc
    ELSE LET feature == At(obs.history, k)
         IN  IF ~feature.init THEN HistoryLoop(obs, W, k + 1, loc)
             ELSE IF feature.timestamp <
                        ObstacleTimestamp(obs) - prediction_trajectory_time_length
                  THEN loc
             ELSE HistoryLoop(obs, W, k + 1,
                      WindowFrame(feature, k, W, obs.history[1],
                                  LaneSamples(feature, loc)))

\* The constant curr_size of line 371.
curr_size == 5

Front(nums) == nums[1]
Back(nums) == nums[Len(nums)]
Positive(x) == x[1] > 0
OneHot(c) == IF c THEN Dbl(1) ELSE Dbl(0)

\* Lines 371-468: the 23 values computed from the samples.
ObstacleSummary(obs, loc) ==
    LET hist_size == Len(obs.history)
        theta_mean == ComputeMean(loc.thetas, 0, hist_size - 1)
        theta_filtered == ComputeMean(loc.thetas, 0, curr_size - 1)
        lane_l_mean == ComputeMean(loc.lane_ls, 0, hist_size - 1)
        lane_l_filtered == ComputeMean(loc.lane_ls, 0, curr_size - 1)
        speed_mean == ComputeMean(loc.speeds, 0, hist_size - 1)
        many == Len(loc.timestamps) > 1
        time_diff == Sub(Front(loc.timestamps), Back(loc.timestamps))
        dist_lb_rate == IF many
                        THEN Div(Sub(Front(loc.dist_lbs), Back(loc.dist_lbs)), time_diff)
                        ELSE Dbl(0)
        dist_rb_rate == IF many
                        THEN Div(Sub(Front(loc.dist_rbs), Back(loc.dist_rbs)), time_diff)
                        ELSE Dbl(0)
        delta_t == IF many
                   THEN Div(time_diff, Dbl(Len(loc.timestamps) - 1))
                   ELSE Dbl(0)
        step == Mul(delta_t, Dbl(curr_size))
        angle_curr == ComputeMean(loc.thetas, 0, curr_size - 1)
        angle_prev == ComputeMean(loc.thetas, curr_size, 2 * curr_size - 1)
        angle_diff == IF hist_size >= 2 * curr_size
                      THEN Sub(angle_curr, angle_prev) ELSE Dbl(0)
        lane_l_curr == ComputeMean(loc.lane_ls, 0, curr_size - 1)
        lane_l_prev == ComputeMean(loc.lane_ls, curr_size, 2 * curr_size - 1)
        lane_l_diff == IF hist_size >= 2 * curr_size
                       THEN Sub(lane_l_curr, lane_l_prev) ELSE Dbl(0)
        angle_diff_rate == IF Positive(delta_t) THEN Div(angle_diff, step) ELSE Dbl(0)
        lane_l_diff_rate == IF Positive(delta_t) THEN Div(lane_l_diff, step) ELSE Dbl(0)
        speed_1st_recent == ComputeMean(loc.speeds, 0, curr_size - 1)
        speed_2nd_recent == ComputeMean(loc.speeds, curr_size, 2 * curr_size - 1)
        speed_3rd_recent == ComputeMean(loc.speeds, 2 * curr_size, 3 * curr_size - 1)
        moving == Len(loc.speeds) >= 3 * curr_size /\ Positive(delta_t)
        acc == IF moving
               THEN Div(Sub(speed_1st_recent, speed_2nd_recent), step)
               ELSE Dbl(0)
        jerk == IF moving
                THEN Div(Add(Sub(speed_1st_recent, Mul(Dbl(2), speed_2nd_recent)),
                             speed_3rd_recent),
                         Mul(step, step))
                ELSE Dbl(0)
        recent == hist_size >= 2 * curr_size /\ Positive(delta_t)
        dist_lb_rate_curr ==
            IF recent
            THEN Div(Sub(ComputeMean(loc.dist_lbs, 0, curr_size - 1),
                         ComputeMean(loc.dist_lbs, curr_size, 2 * curr_size - 1)), step)
            ELSE Dbl(0)
        dist_rb_rate_curr ==
            IF recent
            THEN Div(Sub(ComputeMean(loc.dist_rbs, 0, curr_size - 1),
                         ComputeMean(loc.dist_rbs, curr_size, 2 * curr_size - 1)), step)
            ELSE Dbl(0)
    IN  <<theta_filtered, theta_mean, Sub(theta_filtered, theta_mean),
          angle_diff, angle_diff_rate,
          lane_l_filtered, lane_l_mean, Sub(lane_l_filtered, lane_l_mean),
          lane_l_diff, lane_l_diff_rate,
          speed_mean, acc, jerk,
          Front(loc.dist_lbs), dist_lb_rate, dist_lb_rate_curr,
          Front(loc.dist_rbs), dist_rb_rate, dist_rb_rate_curr,
          OneHot(Front(loc.lane_types) = 0), OneHot(Front(loc.lane_types) = 1),
          OneHot(Front(loc.lane_types) = 2), OneHot(Front(loc.lane_types) = 3)>>

\* Lines 508-518: the window, nine values a frame.
RECURSIVE ObstacleWindow(_, _, _)
ObstacleWindow(loc, W, k) ==
    IF k >= W THEN <<>>
    ELSE <<Dbl(At(loc.has_history, k)),
           Dbl(At(loc.pos_history, k)[1]), Dbl(At(loc.pos_history, k)[2]),
           Dbl(At(loc.vel_history, k)[1]), Dbl(At(loc.vel_history, k)[2]),
           Dbl(At(loc.acc_history, k)[1]), Dbl(At(loc.acc_history, k)[2]),
           Dbl(At(loc.vel_heading_history, k)),
           At(loc.vel_heading_changing_rate_history, k)>>
         \o ObstacleWindow(loc, W, k + 1)

SetObstacleFeatureValues(obs, W) ==
    LET loc == HistoryLoop(obs, W, 0, ObstacleLocals(obs, W))
    IN  IF loc.count <= 0 THEN <<>>
        ELSE ObstacleSummary(obs, loc) \o ObstacleWindow(loc, W, 0)

-----------------------------------------------------------------------------
(* ExtractFeatureValues (lines 182-242) and SaveOfflineFeatures (677-682). *)

\* A slip: the saved features are replaced, not appended to.
SaveOfflineFeaturesOverwrite(sequence, values) ==
    [sequence EXCEPT !.mlp_features = values]

SaveOfflineFeatures(sequence, values) ==
    [sequence EXCEPT !.mlp_features = @ \o values]

\* A slip: the lane block put first and the obstacle block last.
AssembleLaneFirst(obstacle_feature_values, interaction, lane_feature_values, lane_sequence, offl) ==
    IF Len(obstacle_feature_values) # OBSTACLE_FEATURE_SIZE
    THEN [crashed |-> FALSE, null_read |-> FALSE,
          feature_values |-> <<>>, lane_sequence |-> lane_sequence]
    ELSE IF interaction.crashed
    THEN [crashed |-> TRUE, null_read |-> TRUE,
          feature_values |-> obstacle_feature_values, lane_sequence |-> lane_sequence]
    ELSE IF Len(lane_feature_values) # SINGLE_LANE_FEATURE_SIZE * LANE_POINTS_SIZE
    THEN [crashed |-> FALSE, null_read |-> interaction.null_read,
          feature_values |-> obstacle_feature_values \o interaction.values,
          lane_sequence |-> lane_sequence]
    ELSE [crashed |-> FALSE, null_read |-> interaction.null_read,
          feature_values |-> lane_feature_values \o interaction.values
                               \o obstacle_feature_values,
          lane_sequence |-> lane_sequence]

\* Lines 194-241, given the three blocks: [crashed, null_read,
\* feature_values, lane_sequence], the vector as the call leaves it and the
\* lane sequence with what offline mode saved on it.
AssembleFeatureValues(obstacle_feature_values, interaction, lane_feature_values, lane_sequence, offl) ==
    IF Len(obstacle_feature_values) # OBSTACLE_FEATURE_SIZE
    THEN [crashed |-> FALSE, null_read |-> FALSE,
          feature_values |-> <<>>, lane_sequence |-> lane_sequence]
    ELSE IF interaction.crashed
    THEN [crashed |-> TRUE, null_read |-> TRUE,
          feature_values |-> obstacle_feature_values, lane_sequence |-> lane_sequence]
    ELSE IF Len(interaction.values) # INTERACTION_FEATURE_SIZE
    THEN [crashed |-> FALSE, null_read |-> interaction.null_read,
          feature_values |-> obstacle_feature_values, lane_sequence |-> lane_sequence]
    ELSE IF Len(lane_feature_values) # LaneFeatureSize
    THEN [crashed |-> FALSE, null_read |-> interaction.null_read,
          feature_values |-> obstacle_feature_values \o interaction.values,
          lane_sequence |-> lane_sequence]
    ELSE [crashed |-> FALSE, null_read |-> interaction.null_read,
          feature_values |-> obstacle_feature_values \o interaction.values
                               \o lane_feature_values,
          lane_sequence |->
              IF offl
              THEN SaveOfflineFeatures(lane_sequence,
                       obstacle_feature_values \o interaction.values
                         \o lane_feature_values)
              ELSE lane_sequence]

\* The call on an empty vector (lines 182-242).
ExtractFeatureValues(obs, lane_sequence, st, W, offl, ub_fwd, ub_bwd) ==
    AssembleFeatureValues(SetObstacleFeatureValues(obs, W),
                          SetInteractionFeatureValues(st, lane_sequence, ub_fwd, ub_bwd),
                          SetLaneFeatureValues(obs, lane_sequence),
                          lane_sequence, offl)

-----------------------------------------------------------------------------
(* VectorToMatrixXf (lines 52-83). *)

RECURSIVE IsPowerOfTwo(_)
IsPowerOfTwo(d) == d = 1 \/ (d % 2 = 0 /\ IsPowerOfTwo(d \div 2))

\* static_cast<float>: a double that is a small dyadic rational is a float
\* too; any other is rounded to a nearby float, written <<n, d, "rounded">>.
StaticCastFloat(x) == IF IsPowerOfTwo(x[2]) THEN x ELSE <<x[1], x[2], "rounded">>

\* The CHECKs both overloads share (lines 54-56, 68-70).
MatrixChecks(nums, start_index, end_index) ==
    start_index < end_index /\ start_index >= 0 /\ end_index <= Len(nums)

\* The CHECK_EQ of line 71.
MatrixShapeCheck(start_index, end_index, output_num_row, output_num_col) ==
    end_index - start_index = output_num_row * output_num_col

\* Lines 52-63: one row.
VectorToRow(nums, start_index, end_index) ==
    <<[k \in 1..(end_index - start_index) |->
         StaticCastFloat(At(nums, start_index + k - 1))]>>

\* Lines 65-83: output_num_row rows, filled row by row.
VectorToMatrix(nums, start_index, end_index, output_num_row, output_num_col) ==
    [r \in 1..output_num_row |->
        [c \in 1..output_num_col |->
            StaticCastFloat(At(nums, start_index + (r - 1) * output_num_col + c - 1))]]

-----------------------------------------------------------------------------
(* Evaluate (lines 112-180). *)

\* A slip: the interaction block left out of the expected size.
FullFeatureSizeNoInteraction == OBSTACLE_FEATURE_SIZE + LaneFeatureSize

\* The size the feature vector is compared with (lines 146-148).
FullFeatureSize == OBSTACLE_FEATURE_SIZE + INTERACTION_FEATURE_SIZE + LaneFeatureSize

\* What a model may return as model_output(0, 0) and model_output(0, 1), in
\* hundredths: the models are not part of this file.
ModelOutputs == {<<50, 300>>, <<150, -100>>}

LatestFeature(obs) == obs.history[1]

\* A slip: the check for an empty lane graph left out.
SkipObstacleNoCount(obs) ==
    \/ ~obs.history[1].init
    \/ ~obs.history[1].has_lane
    \/ ~obs.has_lane_graph

\* Lines 117-134: the conditions under which Evaluate returns at once.
SkipObstacle(obs) ==
    \/ ~LatestFeature(obs).init
    \/ ~LatestFeature(obs).has_lane
    \/ ~obs.has_lane_graph
    \/ Len(obs.lane_sequence) = 0

\* Lines 112-136: entry and sanity checks.
EvaluateEnter ==
    /\ pc = "call"
    /\ pc' = IF SkipObstacle(obstacle) THEN "done" ELSE "loop"
    /\ i' = 0
    /\ UNCHANGED <<offline, frame_length, obstacle, store, feature_values, runs, sink>>
    /\ UNCHANGED parvars

\* A slip: the go model run whatever vehicle_on_lane says.
ModelRunGoOnly(lane_sequence, values, out) ==
    [model |-> "go",
     sequence |-> i,
     lane_feature_mat |-> VectorToMatrix(values,
                              OBSTACLE_FEATURE_SIZE + INTERACTION_FEATURE_SIZE,
                              Len(values), SINGLE_LANE_FEATURE_SIZE, LANE_POINTS_SIZE),
     obs_feature_mat |-> VectorToRow(values, 0, OBSTACLE_FEATURE_SIZE),
     model_output |-> out]

\* Lines 154-167: the model run on a vector of the full size.
ModelRun(lane_sequence, values, out) ==
    [model |-> IF lane_sequence.vehicle_on_lane THEN "go" ELSE "cutin",
     sequence |-> i,
     lane_feature_mat |-> VectorToMatrix(values,
                              OBSTACLE_FEATURE_SIZE + INTERACTION_FEATURE_SIZE,
                              Len(values), SINGLE_LANE_FEATURE_SIZE, LANE_POINTS_SIZE),
     obs_feature_mat |-> VectorToRow(values, 0, OBSTACLE_FEATURE_SIZE),
     model_output |-> out]

\* The CHECKs of the two VectorToMatrixXf calls of lines 155-160.
ModelInputChecks(values) ==
    /\ MatrixChecks(values, 0, OBSTACLE_FEATURE_SIZE)
    /\ MatrixChecks(values, OBSTACLE_FEATURE_SIZE + INTERACTION_FEATURE_SIZE, Len(values))
    /\ MatrixShapeCheck(OBSTACLE_FEATURE_SIZE + INTERACTION_FEATURE_SIZE, Len(values),
                        SINGLE_LANE_FEATURE_SIZE, LANE_POINTS_SIZE)

\* A slip: the probability of a skipped lane sequence left as it is.
SkippedSequenceKeep(lane_sequence) == lane_sequence

\* Line 149: the lane sequence skipped for the size of its vector.
SkippedSequence(lane_sequence) == [lane_sequence EXCEPT !.probability = 0]

\* Lines 146-172: what the loop does with the outcome r of
\* ExtractFeatureValues; out is what the model returns if it is run.
ScoreSequence(r, out) ==
    /\ feature_values' = r.feature_values
    /\ IF r.crashed
       THEN pc' = "crashed" /\ UNCHANGED <<i, obstacle, runs>>
       ELSE IF Len(r.feature_values) # FullFeatureSize
       THEN /\ obstacle' = [obstacle EXCEPT !.lane_sequence[i + 1] =
                               SkippedSequence(r.lane_sequence)]
            /\ i' = i + 1
            /\ UNCHANGED <<pc, runs>>
       ELSE IF offline
       THEN /\ obstacle' = [obstacle EXCEPT !.lane_sequence[i + 1] = r.lane_sequence]
            /\ i' = i + 1
            /\ UNCHANGED <<pc, runs>>
       ELSE IF ~ModelInputChecks(r.feature_values)
       THEN pc' = "crashed" /\ UNCHANGED <<i, obstacle, runs>>
       ELSE /\ runs' = Append(runs, ModelRun(r.lane_sequence, r.feature_values, out))
            /\ obstacle' = [obstacle EXCEPT !.lane_sequence[i + 1] =
                               [r.lane_sequence EXCEPT !.probability = out[1],
                                                       !.time_to_lane_center = out[2]]]
            /\ i' = i + 1
            /\ UNCHANGED pc

\* Lines 141-173: one turn of the loop over the lane sequences.
EvaluateSequence ==
    /\ pc = "loop"
    /\ i < Len(obstacle.lane_sequence)
    /\ \E ub_fwd \in NullDerefOutcomes, ub_bwd \in NullDerefOutcomes, out \in ModelOutputs :
          \E r \in {ExtractFeatureValues(obstacle, At(obstacle.lane_sequence, i), store,
                                         frame_length, offline, ub_fwd, ub_bwd)} :
              ScoreSequence(r, out)
    /\ UNCHANGED <<offline, frame_length, store, sink, parvars>>

\* Lines 175-180: the end of the loop and the return.
EvaluateReturn ==
    /\ pc = "loop"
    /\ i >= Len(obstacle.lane_sequence)
    /\ sink' = IF offline
               THEN Append(sink, [feature |-> LatestFeature(obstacle),
                                  lane_sequence |-> obstacle.lane_sequence])
               ELSE sink
    /\ pc' = "done"
    /\ UNCHANGED <<offline, frame_length, obstacle, store, i, feature_values, runs>>
    /\ UNCHANGED parvars

Next == EvaluateEnter \/ EvaluateSequence \/ EvaluateReturn

-----------------------------------------------------------------------------
(* The inputs. *)

\* A feature of the history, k steps back, observed at time ts. The kinds:
\* "full" has every field; "nolf" has a lane but no lane feature; "nolane" has
\* no lane at all; "bare" has the lane feature but no position, velocity,
\* acceleration or heading; "uninit" is not initialized.
MakeFeature(kind, k, ts) ==
    LET motion == kind # "bare"
    IN  [init |-> kind # "uninit",
         timestamp |-> ts,
         has_position |-> motion,
         position |-> IF motion THEN <<1 - k, 2>> ELSE <<0, 0>>,
         has_velocity |-> motion,
         velocity |-> IF motion THEN <<1, k>> ELSE <<0, 0>>,
         has_acceleration |-> motion,
         acceleration |-> IF motion THEN <<k, 1>> ELSE <<0, 0>>,
         has_velocity_heading |-> motion,
         velocity_heading |-> IF motion THEN (k + 1) % 4 ELSE 0,
         speed |-> 4 + k,
         length |-> 5,
         has_lane |-> kind # "nolane",
         has_lane_feature |-> kind \notin {"nolane", "nolf"},
         angle_diff |-> IF kind \in {"nolane", "nolf"} THEN 0 ELSE 1 + k,
         lane_l |-> IF kind \in {"nolane", "nolf"} THEN 0 ELSE 2 - k,
         dist_to_left_boundary |-> IF kind \in {"nolane", "nolf"} THEN 0 ELSE 3 + k,
         dist_to_right_boundary |-> IF kind \in {"nolane", "nolf"} THEN 0 ELSE 1 + 2 * k,
         lane_turn_type |-> IF kind \in {"nolane", "nolf"} THEN 0 ELSE k % 4]

FeatureKinds == {"full", "nolf", "bare", "uninit"}

\* The time of the latest feature in the inputs.
Now == 20

\* A history, most recent first: the feature k steps back is dt * k older
\* than the latest.
MakeHistory(kinds, dt) ==
    [k \in 1..Len(kinds) |-> MakeFeature(kinds[k], k - 1, Now - dt * (k - 1))]

PointA == [has_position |-> TRUE, position |-> <<2, 1>>, heading |-> 1, kappa |-> 3]
PointB == [has_position |-> TRUE, position |-> <<4, 5>>, heading |-> 0, kappa |-> 1]
PointNoPosition == [has_position |-> FALSE, position |-> <<0, 0>>, heading |-> 2, kappa |-> 6]

MakeSequence(on_lane, nearby, segments) ==
    [vehicle_on_lane |-> on_lane, nearby_obstacle |-> nearby, lane_segment |-> segments,
     probability |-> 70, time_to_lane_center |-> 900, mlp_features |-> <<>>]

MakeObstacle(history, graph, sequences) ==
    [history |-> history, has_lane_graph |-> graph, lane_sequence |-> sequences]

\* The obstacles of the container, by id: length and speed of the latest feature.
StoreAll == [id \in {1, 2, 3} |-> [length |-> 3 + id, speed |-> 10 * id]]
StoreSome == [id \in {1, 2} |-> [length |-> 3 + id, speed |-> 10 * id]]

Near(id, s, l) == [id |-> id, s |-> s, l |-> l]

\* Lane segments that give the full lane block, and too short a one.
SegmentsLong == <<<<PointA, PointB>>, <<PointNoPosition, PointA>>>>
SegmentsShort == <<<<PointA>>, <<PointB>>>>

\* The candidate lane sequences Evaluate is run on: on the lane and off it,
\* with and without nearby obstacles, one with features saved earlier, one
\* too short for the lane block, one with a nearby id (3) the store lacks.
EvalSequences ==
    {MakeSequence(TRUE, <<>>, SegmentsLong),
     [MakeSequence(FALSE, <<Near(1, 1, 1), Near(2, -1, 0)>>, SegmentsLong)
        EXCEPT !.mlp_features = <<Dbl(9)>>],
     MakeSequence(TRUE, <<Near(2, 0, 1)>>, SegmentsShort),
     MakeSequence(FALSE, <<Near(3, 2, 1)>>, SegmentsLong)}

\* The histories Evaluate is run on.
EvalHistories ==
    {MakeHistory(<<"full", "full">>, 1), MakeHistory(<<"nolf", "nolf">>, 1),
     MakeHistory(<<"uninit">>, 1), MakeHistory(<<"nolane", "full">>, 1)}

EvalObstacles ==
    {MakeObstacle(h, TRUE, ls) : h \in EvalHistories, ls \in SeqsUpTo(EvalSequences, MaxSeq)}
    \cup {MakeObstacle(h, FALSE, <<>>) : h \in EvalHistories}

\* Evaluate is called on any of the obstacles, online or offline.
Init ==
    /\ offline \in BOOLEAN
    /\ frame_length = HistFrames
    /\ obstacle \in EvalObstacles
    /\ store = StoreSome
    /\ pc = "call"
    /\ i = 0
    /\ feature_values = <<>>
    /\ runs = <<>>
    /\ sink = <<>>
    /\ NoCalls

Spec == Init /\ [][Next]_vars

-----------------------------------------------------------------------------
(* The extractors called on their own, on inputs enumerated more widely. *)

Idle == UNCHANGED <<offline, frame_length, obstacle, store, i, runs, sink, parvars>>

\* The latest features SetLaneFeatureValues is called with: at the origin
\* heading along x, elsewhere and turned, without a position, not initialized.
LaneFeatures ==
    {MakeFeature("full", 0, Now),
     [MakeFeature("full", 0, Now) EXCEPT !.position = <<0, 0>>, !.velocity_heading = 0],
     MakeFeature("bare", 0, Now),
     MakeFeature("uninit", 0, Now)}

\* One or two lane segments of up to MaxSegPoints lane points each, or none.
LaneSegmentChoices ==
    SeqsUpTo(SeqsUpTo({PointA, PointB, PointNoPosition}, MaxSegPoints), 2)

InitLane ==
    /\ offline = FALSE
    /\ frame_length = HistFrames
    /\ obstacle \in {MakeObstacle(<<f>>, TRUE, <<MakeSequence(TRUE, <<>>, segs)>>) :
                        f \in LaneFeatures, segs \in LaneSegmentChoices}
    /\ store = StoreSome
    /\ pc = "lane_call"
    /\ i = 0
    /\ feature_values = <<>>
    /\ runs = <<>>
    /\ sink = <<>>
    /\ NoCalls

CallSetLaneFeatureValues ==
    /\ pc = "lane_call"
    /\ feature_values' = SetLaneFeatureValues(obstacle, obstacle.lane_sequence[1])
    /\ pc' = "lane_return"
    /\ Idle

SpecLane == InitLane /\ [][CallSetLaneFeatureValues]_vars

\* NearbyObstacle entries on both sides, at the default distance and beyond
\* it, with equal s, and with an id (3) that only StoreAll holds.
NearbyChoices ==
    {Near(1, 0, 1), Near(2, 1, 0), Near(3, 1, 1), Near(1, default_s, 0),
     Near(2, default_s + 1, 1), Near(2, -1, 1), Near(3, -1, 0), Near(1, -2, 0),
     Near(1, -default_s, 1)}

InitInteraction ==
    /\ offline = FALSE
    /\ frame_length = HistFrames
    /\ obstacle \in {MakeObstacle(MakeHistory(<<"full">>, 1), TRUE,
                                   <<MakeSequence(TRUE, nearby, SegmentsLong)>>) :
                        nearby \in SeqsUpTo(NearbyChoices, MaxNearby)}
    /\ store \in {StoreAll, StoreSome}
    /\ pc = "interaction_call"
    /\ i = 0
    /\ feature_values = <<>>
    /\ runs = <<>>
    /\ sink = <<>>
    /\ NoCalls

CallSetInteractionFeatureValues ==
    /\ pc = "interaction_call"
    /\ \E ub_fwd \in NullDerefOutcomes, ub_bwd \in NullDerefOutcomes :
          \E r \in {SetInteractionFeatureValues(store, obstacle.lane_sequence[1],
                                                ub_fwd, ub_bwd)} :
              /\ feature_values' = r.values
              /\ pc' = IF r.crashed THEN "crashed" ELSE "interaction_return"
    /\ Idle

SpecInteraction == InitInteraction /\ [][CallSetInteractionFeatureValues]_vars

\* Histories of up to MaxHist features of every kind, one or two time units
\* apart, so that the oldest fall behind the time horizon.
ObstacleHistories ==
    {MakeHistory(kinds, dt) :
        kinds \in SeqsUpTo(FeatureKinds, MaxHist) \ {<<>>}, dt \in {1, 7}}

InitObstacle ==
    /\ offline = FALSE
    /\ frame_length \in 0..(HistFrames + 1)
    /\ obstacle \in {MakeObstacle(h, TRUE, <<>>) : h \in ObstacleHistories}
    /\ store = StoreSome
    /\ pc = "obstacle_call"
    /\ i = 0
    /\ feature_values = <<>>
    /\ runs = <<>>
    /\ sink = <<>>
    /\ NoCalls

CallSetObstacleFeatureValues ==
    /\ pc = "obstacle_call"
    /\ feature_values' = SetObstacleFeatureValues(obstacle, frame_length)
    /\ pc' = "obstacle_return"
    /\ Idle

SpecObstacle == InitObstacle /\ [][CallSetObstacleFeatureValues]_vars

\* Features in the longer histories the summary is computed from: more than
\* twice curr_size.
MaxLongHist == 11

\* Longer histories, one time unit apart, every feature with a lane feature
\* or with a lane and no lane feature.
LongHistories ==
    {MakeHistory(kinds, 1) : kinds \in SeqsUpTo({"full", "nolf"}, MaxLongHist) \ {<<>>}}

InitSummary ==
    /\ offline = FALSE
    /\ frame_length = HistFrames
    /\ obstacle \in {MakeObstacle(h, TRUE, <<>>) : h \in LongHistories}
    /\ store = StoreSome
    /\ pc = "obstacle_call"
    /\ i = 0
    /\ feature_values = <<>>
    /\ runs = <<>>
    /\ sink = <<>>
    /\ NoCalls

SpecSummary == InitSummary /\ [][CallSetObstacleFeatureValues]_vars

-----------------------------------------------------------------------------
(* Two calls of Evaluate at once, one on each obstacle of a container, online. *)
(* A call is cut at its reads of the container and at each of its writes.      *)

\* Lane sequences of an obstacle in the inputs of the calls that run at once.
MaxParSeq == 2

\* The ids of the two obstacles.
Ids == {1, 2}

\* What GetObstacle finds in the container: the latest feature of each obstacle.
ContainerStore(c) == [id \in DOMAIN c |-> LatestFeature(c[id])]

\* network::CruiseModel::Run: a function of the model and its two inputs, the
\* models being read only after they are loaded. Hundredths.
CruiseModelRun(model, lane_feature_mat, obs_feature_mat) ==
    IF model = "go"
    THEN <<50 + Abs(lane_feature_mat[1][1][1]), 300>>
    ELSE <<150, -100 - Abs(obs_feature_mat[1][1][1])>>

\* A slip: the vector kept in one place all calls share.
FeatureValuesShared(p) == 1

\* Line 144: feature_values is a local of the call, one for each call.
FeatureValuesOf(p) == p

\* A read or a write by call p of the field at path of object obj.
Access(p, op, obj, path) == [call |-> p, op |-> op, obj |-> obj, path |-> path]

\* The path of a field of lane sequence k of the latest feature.
SequencePath(k, field) == <<"feature", 0, "lane_sequence", k, field>>

\* Lines 117-134: what the sanity checks read.
EnterAccesses(p) ==
    {Access(p, "read", <<"obstacle", p>>, <<"feature", 0, f>>) :
        f \in {"init", "has_lane", "has_lane_graph", "lane_sequence_size"}}

\* Lines 145 and 182-242: what ExtractFeatureValues reads for lane sequence k
\* of obstacle p: the history of p, the nearby obstacles and the lane
\* segments of the lane sequence, and length and speed of the latest feature
\* of the nearest obstacle on either side; the vector it fills.
ExtractAccesses(c, p, k) ==
    LET nearest == NearestObstacles(At(c[p].lane_sequence, k))
        found == {n \in {nearest.fwd, nearest.bwd} : n.has_id /\ n.id \in DOMAIN c}
    IN  {Access(p, "read", <<"obstacle", p>>, <<"feature", h, f>>) :
            h \in 0..(Len(c[p].history) - 1), f \in {"motion", "lane_feature"}}
        \cup {Access(p, "read", <<"obstacle", p>>, SequencePath(k, f)) :
                 f \in {"nearby_obstacle", "lane_segment"}}
        \cup {Access(p, "read", <<"obstacle", n.id>>, <<"feature", 0, f>>) :
                 n \in found, f \in {"length", "speed"}}
        \cup {Access(p, "write", <<"feature_values", FeatureValuesOf(p)>>, <<>>)}

\* Lines 146-170: the size check reads the vector; a vector of the full size
\* is read again for the matrices, vehicle_on_lane is read, and the
\* probability written; a vector of another size has the probability written.
ScoreAccesses(p, k, full) ==
    {Access(p, "read", <<"feature_values", FeatureValuesOf(p)>>, <<>>),
     Access(p, "write", <<"obstacle", p>>, SequencePath(k, "probability"))}
    \cup IF full
         THEN {Access(p, "read", <<"obstacle", p>>, SequencePath(k, "vehicle_on_lane"))}
         ELSE {}

\* Line 171.
WriteTimeAccesses(p, k) ==
    {Access(p, "write", <<"obstacle", p>>, SequencePath(k, "time_to_lane_center"))}

\* Line 145 for lane sequence k of obstacle p, in online mode: the vector.
ExtractFor(c, p, k, ub) ==
    ExtractFeatureValues(c[p], At(c[p].lane_sequence, k), ContainerStore(c),
                         frame_length, FALSE, ub, ub)

\* Lines 154-167 on a vector of the full size: model_output.
ModelOutputFor(lane_sequence, values) ==
    CruiseModelRun(IF lane_sequence.vehicle_on_lane THEN "go" ELSE "cutin",
                   VectorToMatrix(values, OBSTACLE_FEATURE_SIZE + INTERACTION_FEATURE_SIZE,
                                  Len(values), SINGLE_LANE_FEATURE_SIZE, LANE_POINTS_SIZE),
                   VectorToRow(values, 0, OBSTACLE_FEATURE_SIZE))

\* Lines 112-136 of call p.
ParEnter(p) ==
    /\ calls[p].pc = "call"
    /\ calls' = [calls EXCEPT ![p].pc = IF SkipObstacle(container[p]) THEN "done" ELSE "loop",
                              ![p].i = 0]
    /\ accesses' = accesses \cup EnterAccesses(p)
    /\ UNCHANGED <<container, before>>

\* Lines 144-145 of call p: ExtractFeatureValues on the next lane sequence.
ParExtract(p) ==
    /\ calls[p].pc = "loop"
    /\ calls[p].i < Len(container[p].lane_sequence)
    /\ \E ub \in NullDerefOutcomes :
          \E r \in {ExtractFor(container, p, calls[p].i, ub)} :
              calls' = [calls EXCEPT
                           ![p].pc = IF r.crashed THEN "crashed" ELSE "extracted",
                           ![FeatureValuesOf(p)].feature_values = r.feature_values]
    /\ accesses' = accesses \cup ExtractAccesses(container, p, calls[p].i)
    /\ UNCHANGED <<container, before>>

\* Lines 146-170 of call p: the size check, and on a vector of the full size
\* the model run and the write of the probability.
ParScore(p) ==
    /\ calls[p].pc = "extracted"
    /\ \E values \in {calls[FeatureValuesOf(p)].feature_values} :
          /\ accesses' = accesses \cup
                 ScoreAccesses(p, calls[p].i, Len(values) = FullFeatureSize)
          /\ IF Len(values) # FullFeatureSize
             THEN /\ container' = [container EXCEPT ![p].lane_sequence[calls[p].i + 1] =
                                       SkippedSequence(@)]
                  /\ calls' = [calls EXCEPT ![p].pc = "loop", ![p].i = @ + 1]
             ELSE IF ~ModelInputChecks(values)
             THEN calls' = [calls EXCEPT ![p].pc = "crashed"] /\ UNCHANGED container
             ELSE \E out \in {ModelOutputFor(At(container[p].lane_sequence, calls[p].i),
                                              values)} :
                      /\ container' = [container EXCEPT
                             ![p].lane_sequence[calls[p].i + 1].probability = out[1]]
                      /\ calls' = [calls EXCEPT ![p].pc = "scored",
                                                ![p].model_output = out]
    /\ UNCHANGED before

\* Line 171 of call p: the write of the time.
ParWriteTime(p) ==
    /\ calls[p].pc = "scored"
    /\ container' = [container EXCEPT
           ![p].lane_sequence[calls[p].i + 1].time_to_lane_center = calls[p].model_output[2]]
    /\ calls' = [calls EXCEPT ![p].pc = "loop", ![p].i = @ + 1]
    /\ accesses' = accesses \cup WriteTimeAccesses(p, calls[p].i)
    /\ UNCHANGED before

\* Lines 141 and 175-180 of call p: the loop is over and the call returns.
ParReturn(p) ==
    /\ calls[p].pc = "loop"
    /\ calls[p].i >= Len(container[p].lane_sequence)
    /\ calls' = [calls EXCEPT ![p].pc = "done"]
    /\ UNCHANGED <<container, accesses, before>>

NextPar ==
    /\ \E p \in Ids :
          ParEnter(p) \/ ParExtract(p) \/ ParScore(p) \/ ParWriteTime(p) \/ ParReturn(p)
    /\ UNCHANGED <<offline, frame_length, obstacle, store, pc, i, feature_values, runs, sink>>

\* The lane sequences of obstacle p: each names the other obstacle, or both,
\* as nearby. Obstacle 1 has one too short for the lane block, obstacle 2 one
\* it is not on.
ParSequences(p) ==
    {MakeSequence(TRUE, <<Near(3 - p, 1, 1), Near(p, -1, 0)>>, SegmentsLong),
     IF p = 1
     THEN MakeSequence(TRUE, <<Near(3 - p, 0, 1)>>, SegmentsShort)
     ELSE MakeSequence(FALSE, <<Near(3 - p, -2, 1)>>, SegmentsLong)}

\* The obstacle of id p: its length and speed are its own.
ParObstacles(p) ==
    {MakeObstacle([h EXCEPT ![1].length = 3 + p, ![1].speed = 10 * p], TRUE, ls) :
        h \in {MakeHistory(<<"full", "full">>, 1), MakeHistory(<<"nolf">>, 1)},
        ls \in SeqsUpTo(ParSequences(p), MaxParSeq)}

InitPar ==
    /\ offline = FALSE
    /\ frame_length = HistFrames
    /\ obstacle = <<>>
    /\ store = <<>>
    /\ pc = "par"
    /\ i = 0
    /\ feature_values = <<>>
    /\ runs = <<>>
    /\ sink = <<>>
    /\ container \in [Ids -> UNION {ParObstacles(p) : p \in Ids}]
    /\ \A p \in Ids : container[p] \in ParObstacles(p)
    /\ calls = [p \in Ids |-> [pc |-> "call", i |-> 0, feature_values |-> <<>>,
                                model_output |-> <<>>]]
    /\ accesses = {}
    /\ before = container

SpecPar == InitPar /\ [][NextPar]_vars

\* Evaluate on obstacle p run alone from start to end on the container c.
RECURSIVE EvaluateLoopAlone(_, _, _)
EvaluateLoopAlone(c, p, k) ==
    IF k >= Len(c[p].lane_sequence) THEN c
    ELSE LET values == ExtractFor(c, p, k, CHOOSE ub \in NullDerefOutcomes : ub.crash).feature_values
             out == ModelOutputFor(At(c[p].lane_sequence, k), values)
         IN  EvaluateLoopAlone(
                 IF Len(values) # FullFeatureSize
                 THEN [c EXCEPT ![p].lane_sequence[k + 1] = SkippedSequence(@)]
                 ELSE [c EXCEPT ![p].lane_sequence[k + 1].probability = out[1],
                                ![p].lane_sequence[k + 1].time_to_lane_center = out[2]],
                 p, k + 1)

EvaluateAlone(c, p) == IF SkipObstacle(c[p]) THEN c ELSE EvaluateLoopAlone(c, p, 0)

-----------------------------------------------------------------------------
(* The vocabulary of the properties of Evaluate. *)

Candidates == 0..(Len(obstacle.lane_sequence) - 1)
Candidate(k) == obstacle.lane_sequence[k + 1]

\* The candidates the loop has been through.
Processed == {k \in Candidates : k < i}

\* Evaluate gets past its sanity checks with this obstacle.
PassesChecks ==
    /\ obstacle.history[1].init
    /\ obstacle.history[1].has_lane
    /\ obstacle.has_lane_graph
    /\ Len(obstacle.lane_sequence) > 0

\* The first feature older than the time horizon, or the length of the
\* history: the walk most recent first ends there.
RECURSIVE HorizonEnd(_, _)
HorizonEnd(obs, k) ==
    IF k >= Len(obs.history) THEN k
    ELSE IF obs.history[k + 1].init
            /\ obs.history[k + 1].timestamp <
                   obs.history[1].timestamp - prediction_trajectory_time_length
         THEN k
    ELSE HorizonEnd(obs, k + 1)

\* The visited features that carry lane attributes.
LaneAttributed(obs) ==
    {k \in 0..(HorizonEnd(obs, 0) - 1) :
        /\ obs.history[k + 1].init
        /\ obs.history[k + 1].has_lane
        /\ obs.history[k + 1].has_lane_feature}

\* The obstacle block and the lane block of candidate k have their sizes, so
\* that its feature vector has the full size.
FullLength(k) ==
    /\ Len(SetObstacleFeatureValues(obstacle, frame_length)) = OBSTACLE_FEATURE_SIZE
    /\ Len(SetLaneFeatureValues(obstacle, Candidate(k))) = LaneFeatureSize

\* The model runs made for candidate k.
RunsOf(k) == {n \in 1..Len(runs) : runs[n].sequence = k}

-----------------------------------------------------------------------------
(* C1 *)

\* C1 as stated: when no visited feature of the history carries lane
\* attributes, no step of Evaluate changes the probability of any candidate
\* lane sequence.
C1_ProbabilityUntouched ==
    [][LaneAttributed(obstacle) = {} =>
          \A k \in Candidates :
              obstacle'.lane_sequence[k + 1].probability = Candidate(k).probability]_vars

\* C1 amended: when no visited feature of the history carries lane attributes
\* and Evaluate gets past its sanity checks, it returns with the probability
\* of every candidate lane sequence set to 0, having run no model.
C1_ProbabilityZeroed ==
    (pc = "done" /\ PassesChecks /\ LaneAttributed(obstacle) = {}) =>
        /\ \A k \in Candidates : Candidate(k).probability = 0
        /\ runs = <<>>

C1_Witness ==
    /\ pc = "done"
    /\ PassesChecks
    /\ LaneAttributed(obstacle) = {}
    /\ Len(obstacle.lane_sequence) >= 2
    /\ \A k \in Candidates : Candidate(k).probability = 0

-----------------------------------------------------------------------------
(* C2 *)

\* C2: online, every candidate the loop has been through whose feature vector
\* has not the full size has probability 0 and no model run, every other one
\* has a model run whose output is its probability and time; and Evaluate
\* returns only after the loop has been through every candidate.
C2_WrongLengthSkipped ==
    (~offline /\ PassesChecks) =>
        /\ \A k \in Processed :
              IF FullLength(k)
              THEN \E n \in RunsOf(k) :
                      /\ Candidate(k).probability = runs[n].model_output[1]
                      /\ Candidate(k).time_to_lane_center = runs[n].model_output[2]
              ELSE RunsOf(k) = {} /\ Candidate(k).probability = 0
        /\ pc = "done" => Processed = Candidates

C2_Witness ==
    /\ pc = "done"
    /\ ~offline
    /\ Len(obstacle.lane_sequence) = 3
    /\ FullLength(0) /\ ~FullLength(1) /\ FullLength(2)
    /\ Candidate(1).probability = 0
    /\ RunsOf(0) # {} /\ RunsOf(1) = {} /\ RunsOf(2) # {}

-----------------------------------------------------------------------------
(* C3 *)

\* C3: online, for every candidate the loop has been through whose feature
\* vector has the full size there is exactly one model run, of the go model
\* if the vehicle is on the lane and of the cut-in model if not, and the
\* candidate holds the two outputs of that run as they are; no other run is made.
C3_OneModelRun ==
    ~offline =>
        /\ \A k \in Processed :
              FullLength(k) =>
                  /\ Cardinality(RunsOf(k)) = 1
                  /\ \A n \in RunsOf(k) :
                        /\ runs[n].model =
                              IF Candidate(k).vehicle_on_lane THEN "go" ELSE "cutin"
                        /\ Candidate(k).probability = runs[n].model_output[1]
                        /\ Candidate(k).time_to_lane_center = runs[n].model_output[2]
        /\ Len(runs) = Cardinality({k \in Processed : FullLength(k)})

\* Both models have run, and a probability above 1 (100 hundredths) stands.
C3_Witness ==
    /\ pc = "done"
    /\ ~offline
    /\ \E n \in 1..Len(runs) : runs[n].model = "go"
    /\ \E n \in 1..Len(runs) : runs[n].model = "cutin"
    /\ \E k \in Candidates : Candidate(k).probability > 100

-----------------------------------------------------------------------------
(* C4 *)

\* The latest feature is not initialized, or has no lane or no lane graph,
\* or the lane graph has no lane sequence.
C4_Unusable ==
    \/ ~obstacle.history[1].init
    \/ ~obstacle.history[1].has_lane
    \/ ~obstacle.has_lane_graph
    \/ Len(obstacle.lane_sequence) = 0

\* C4: called on such an obstacle, Evaluate returns at once and leaves the
\* obstacle (probabilities, times, saved features), the model runs and the
\* feature output as they are, offline as well as online.
C4_SkipChangesNothing ==
    [][(pc = "call" /\ C4_Unusable) =>
          (pc' = "done" /\ UNCHANGED <<obstacle, runs, sink, store>>)]_vars

C4_Witness ==
    /\ pc = "done"
    /\ offline
    /\ ~obstacle.history[1].init
    /\ Len(obstacle.lane_sequence) = 2
    /\ sink = <<>>

-----------------------------------------------------------------------------
(* C5 *)

\* The full feature vectors candidate k can give: the three blocks in order,
\* for every outcome of its lookups that lets the call return.
ExpectedVectors(k) ==
    {SetObstacleFeatureValues(obstacle, frame_length) \o r.values
        \o SetLaneFeatureValues(obstacle, Candidate(k)) :
     r \in {x \in {SetInteractionFeatureValues(store, Candidate(k), u1, u2) :
                     u1 \in NullDerefOutcomes, u2 \in NullDerefOutcomes} : ~x.crashed}}

\* A step of an offline call: no model runs; no time is written and a
\* probability changes only to 0; the saved features of a lane sequence
\* change only when the loop goes through it with all blocks of their sizes,
\* and then the full vector is appended to them; the latest feature, with its
\* lane sequences as they are then, goes to the feature output only in the
\* step that follows the last lane sequence.
C5_Step ==
    /\ runs' = runs
    /\ \A k \in Candidates :
          /\ obstacle'.lane_sequence[k + 1].time_to_lane_center =
                Candidate(k).time_to_lane_center
          /\ obstacle'.lane_sequence[k + 1].probability \in {Candidate(k).probability, 0}
          /\ IF pc = "loop" /\ pc' = "loop" /\ k = i /\ FullLength(k)
             THEN \E v \in ExpectedVectors(k) :
                     obstacle'.lane_sequence[k + 1].mlp_features =
                         Candidate(k).mlp_features \o v
             ELSE obstacle'.lane_sequence[k + 1].mlp_features = Candidate(k).mlp_features
    /\ sink' = IF pc = "loop" /\ i >= Len(obstacle.lane_sequence)
               THEN Append(sink, [feature |-> obstacle.history[1],
                                  lane_sequence |-> obstacle.lane_sequence])
               ELSE sink

\* Offline, no model has run, and the feature output holds one feature once
\* a call that got past the sanity checks has returned, and none before.
C5_State ==
    offline =>
        /\ runs = <<>>
        /\ Len(sink) = IF pc = "done" /\ PassesChecks THEN 1 ELSE 0

\* C5: in offline mode Evaluate runs no model and writes no model result;
\* the full feature vector of each candidate whose blocks have their sizes
\* is appended to the saved features of that lane sequence; the latest
\* feature is inserted into the feature output once, after the last lane
\* sequence has been processed.
C5_OfflineCapture == [](C5_State) /\ [][offline => C5_Step]_vars

\* An offline call has returned: features were saved on two lane sequences,
\* after those one of them held before, and the feature output holds the
\* latest feature with them.
C5_Witness ==
    /\ pc = "done"
    /\ offline
    /\ Len(sink) = 1
    /\ sink[1].lane_sequence = obstacle.lane_sequence
    /\ \E k \in Candidates : Len(Candidate(k).mlp_features) = FullFeatureSize
    /\ \E k \in Candidates : Len(Candidate(k).mlp_features) = FullFeatureSize + 1
    /\ \E k \in Candidates : ~FullLength(k)

-----------------------------------------------------------------------------
(* C10 *)

\* The nearest forward or backward obstacle of candidate k has an id the store
\* cannot resolve.
UnresolvedNearest(k) ==
    \/ /\ NearestObstacles(Candidate(k)).fwd.has_id
       /\ NearestObstacles(Candidate(k)).fwd.id \notin DOMAIN store
    \/ /\ NearestObstacles(Candidate(k)).bwd.has_id
       /\ NearestObstacles(Candidate(k)).bwd.id \notin DOMAIN store

\* C10 as stated: the evaluation ends at the lookup of an id the store cannot
\* resolve: the loop never gets past such a candidate (no length or speed is
\* emitted for it, no probability written), and the vector of the call that
\* ended holds the obstacle block alone.
C10_AbortsAtLookup ==
    /\ \A k \in Processed :
          Len(SetObstacleFeatureValues(obstacle, frame_length)) = OBSTACLE_FEATURE_SIZE
              => ~UnresolvedNearest(k)
    /\ pc = "crashed" => Len(feature_values) = OBSTACLE_FEATURE_SIZE

-----------------------------------------------------------------------------
(* C6 *)

Nearby == obstacle.lane_sequence[1].nearby_obstacle
AllResolvable == \A n \in 1..Len(Nearby) : Nearby[n].id \in DOMAIN store

ForwardHalf == SubSeq(feature_values, 1, 4)
BackwardHalf == SubSeq(feature_values, 5, 8)
DefaultForward == <<Dbl(default_s), Dbl(default_l), Dbl(0), Dbl(0)>>
DefaultBackward == <<Dbl(-default_s), Dbl(default_l), Dbl(0), Dbl(0)>>

\* s, l of entry n and length, speed of the obstacle it names.
Describes(n) ==
    <<Dbl(Nearby[n].s), Dbl(Nearby[n].l),
      Dbl(store[Nearby[n].id].length), Dbl(store[Nearby[n].id].speed)>>

\* The entries in front (s >= 0) and behind (s < 0), and those of them
\* nearer than the default distance.
InFront == {n \in 1..Len(Nearby) : Nearby[n].s >= 0}
Behind == {n \in 1..Len(Nearby) : Nearby[n].s < 0}
NearInFront == {n \in InFront : Nearby[n].s < default_s}
NearBehind == {n \in Behind : Nearby[n].s > -default_s}

\* C6 as stated: eight values; the forward half is the defaults exactly when
\* no entry has s >= 0 and else describes an entry of smallest s >= 0; the
\* backward half is the defaults exactly when no entry has s < 0 and else
\* describes an entry of largest s < 0.
C6_DefaultsIffNone ==
    (pc = "interaction_return" /\ AllResolvable) =>
        /\ Len(feature_values) = 8
        /\ IF InFront = {} THEN ForwardHalf = DefaultForward
           ELSE /\ ForwardHalf # DefaultForward
                /\ \E n \in InFront :
                      /\ \A m \in InFront : Nearby[n].s <= Nearby[m].s
                      /\ ForwardHalf = Describes(n)
        /\ IF Behind = {} THEN BackwardHalf = DefaultBackward
           ELSE /\ BackwardHalf # DefaultBackward
                /\ \E n \in Behind :
                      /\ \A m \in Behind : Nearby[n].s >= Nearby[m].s
                      /\ BackwardHalf = Describes(n)

\* C6 amended: eight values; the forward half is the defaults exactly when no
\* entry has 0 <= s < default_s and else describes the first entry of the
\* smallest such s; the backward half is the defaults exactly when no entry
\* has -default_s < s < 0 and else describes the first entry of the largest
\* such s.
C6_DefaultsIffNoneNearer ==
    (pc = "interaction_return" /\ AllResolvable) =>
        /\ Len(feature_values) = 8
        /\ IF NearInFront = {} THEN ForwardHalf = DefaultForward
           ELSE /\ ForwardHalf # DefaultForward
                /\ \E n \in NearInFront :
                      /\ \A m \in NearInFront :
                            \/ Nearby[n].s < Nearby[m].s
                            \/ Nearby[n].s = Nearby[m].s /\ n <= m
                      /\ ForwardHalf = Describes(n)
        /\ IF NearBehind = {} THEN BackwardHalf = DefaultBackward
           ELSE /\ BackwardHalf # DefaultBackward
                /\ \E n \in NearBehind :
                      /\ \A m \in NearBehind :
                            \/ Nearby[n].s > Nearby[m].s
                            \/ Nearby[n].s = Nearby[m].s /\ n <= m
                      /\ BackwardHalf = Describes(n)

\* An entry in front at the default distance or beyond and none nearer: the
\* forward half is the defaults; behind, two entries at the same s.
C6_Witness ==
    /\ pc = "interaction_return"
    /\ AllResolvable
    /\ InFront # {} /\ NearInFront = {}
    /\ ForwardHalf = DefaultForward
    /\ \E n \in NearBehind, m \in NearBehind :
          n < m /\ Nearby[n].s = Nearby[m].s /\ Nearby[n].id # Nearby[m].id
    /\ BackwardHalf # DefaultBackward

-----------------------------------------------------------------------------
(* C7 *)

\* The lane points of the lane sequence that have a position.
PositionedPoints ==
    {<<a, b>> \in (1..Len(obstacle.lane_sequence[1].lane_segment)) \X (1..(2 * MaxSegPoints)) :
        /\ b <= Len(obstacle.lane_sequence[1].lane_segment[a])
        /\ obstacle.lane_sequence[1].lane_segment[a][b].has_position}

\* C7 as stated: the lane block has 4 * LANE_POINTS_SIZE values whatever the
\* obstacle and the lane sequence.
C7_AlwaysFull ==
    pc = "lane_return" => Len(feature_values) = 4 * LANE_POINTS_SIZE

\* C7 amended: the lane block is empty when the latest feature is not
\* initialized or has no position; else it has 4 * LANE_POINTS_SIZE values
\* when the lane sequence has at least three lane points with a position (or
\* LANE_POINTS_SIZE of them), and four for each such point when it has fewer.
C7_FullFromThreePoints ==
    pc = "lane_return" =>
        Len(feature_values) =
            IF ~obstacle.history[1].init \/ ~obstacle.history[1].has_position THEN 0
            ELSE IF \/ Cardinality(PositionedPoints) >= 3
                    \/ Cardinality(PositionedPoints) >= LANE_POINTS_SIZE
                 THEN 4 * LANE_POINTS_SIZE
            ELSE 4 * Cardinality(PositionedPoints)

\* Two lane points with a position and one without: eight values.
C7_Witness ==
    /\ pc = "lane_return"
    /\ obstacle.history[1].init /\ obstacle.history[1].has_position
    /\ Cardinality(PositionedPoints) = 2
    /\ \E a \in 1..Len(obstacle.lane_sequence[1].lane_segment) :
          \E b \in 1..Len(obstacle.lane_sequence[1].lane_segment[a]) :
              ~obstacle.lane_sequence[1].lane_segment[a][b].has_position
    /\ Len(feature_values) = 8

-----------------------------------------------------------------------------
(* C8 *)

Lateral(k) == feature_values[4 * k + 1]
Longitudinal(k) == feature_values[4 * k + 2]
Heading(k) == feature_values[4 * k + 3]
Curvature(k) == feature_values[4 * k + 4]

\* C8 as stated: in a full lane block, every point after those the lane
\* sequence gave continues the two points before it: lateral and
\* longitudinal by 2 * prev - prev_prev, the heading repeated, curvature 0.
C8_LinearExtrapolation ==
    (pc = "lane_return" /\ Len(feature_values) = 4 * LANE_POINTS_SIZE) =>
        \A k \in Cardinality(PositionedPoints)..(LANE_POINTS_SIZE - 1) :
            /\ Lateral(k) = Sub(Mul(Dbl(2), Lateral(k - 1)), Lateral(k - 2))
            /\ Longitudinal(k) =
                  Sub(Mul(Dbl(2), Longitudinal(k - 1)), Longitudinal(k - 2))
            /\ Heading(k) = Heading(k - 1)
            /\ Curvature(k) = Dbl(0)

-----------------------------------------------------------------------------
(* C9 *)

\* C9: the obstacle block is empty exactly when no visited feature of the
\* history carries lane attributes, and has 23 + 9 * W values otherwise, W the
\* configured frame length.
C9_EmptyOrFullBlock ==
    pc = "obstacle_return" =>
        IF LaneAttributed(obstacle) = {}
        THEN feature_values = <<>>
        ELSE Len(feature_values) = 23 + 9 * frame_length

\* A history shorter than the window with a lane-attributed feature in reach,
\* and one longer than the window whose oldest features fall behind the
\* time horizon.
C9_Witness ==
    /\ pc = "obstacle_return"
    /\ LaneAttributed(obstacle) # {}
    /\ Len(feature_values) = 23 + 9 * frame_length
    /\ \/ Len(obstacle.history) < frame_length
       \/ /\ Len(obstacle.history) > frame_length
          /\ HorizonEnd(obstacle, 0) < Len(obstacle.history)
          /\ ~obstacle.history[1].has_lane_feature

-----------------------------------------------------------------------------
(* C11 *)

\* One path leads to the other: the two name the same field, or one names a
\* part of what the other names.
Overlap(a, b) ==
    \/ Len(a) <= Len(b) /\ SubSeq(b, 1, Len(a)) = a
    \/ Len(b) <= Len(a) /\ SubSeq(a, 1, Len(b)) = b

\* Two accesses by different calls to one field, one of them a write.
Conflict(x, y) ==
    /\ x.call # y.call
    /\ x.obj = y.obj
    /\ Overlap(x.path, y.path)
    /\ "write" \in {x.op, y.op}

AllDone == \A p \in Ids : calls[p].pc = "done"

\* The fields of lane sequence k of obstacle p other than those written.
Untouched(c, p, k) ==
    [c[p].lane_sequence[k] EXCEPT !.probability = 0, !.time_to_lane_center = 0]

\* C11: at every point of every interleaving of the two calls, a call has
\* written into the container only probability and time of lane sequences of
\* its own obstacle, no field has been written by one call and read or
\* written by the other, and when both calls have returned the container is
\* what running the two calls one after the other gives, in either order.
C11_CallsIndependent ==
    pc = "par" =>
        /\ \A x \in accesses :
              (x.op = "write" /\ x.obj[1] = "obstacle") =>
                  /\ x.obj = <<"obstacle", x.call>>
                  /\ \E k \in 0..(Len(container[x.call].lane_sequence) - 1) :
                        x.path \in {SequencePath(k, "probability"),
                                    SequencePath(k, "time_to_lane_center")}
        /\ \A p \in Ids :
              /\ container[p].history = before[p].history
              /\ Len(container[p].lane_sequence) = Len(before[p].lane_sequence)
              /\ \A k \in 1..Len(container[p].lane_sequence) :
                    Untouched(container, p, k) = Untouched(before, p, k)
        /\ \A x \in accesses, y \in accesses : ~Conflict(x, y)
        /\ AllDone =>
              /\ container = EvaluateAlone(EvaluateAlone(before, 1), 2)
              /\ container = EvaluateAlone(EvaluateAlone(before, 2), 1)

\* Both calls have returned; each obstacle was read by the other call as the
\* nearest of a lane sequence, and each call ran a model and wrote what it
\* returned.
C11_Witness ==
    /\ pc = "par"
    /\ AllDone
    /\ \A p \in Ids :
          /\ \E x \in accesses : x.call # p /\ x.obj = <<"obstacle", p>> /\ x.op = "read"
          /\ \E k \in 1..Len(container[p].lane_sequence) :
                container[p].lane_sequence[k].probability \notin {0, 70}
    /\ container[1].lane_sequence # container[2].lane_sequence

-----------------------------------------------------------------------------
(* C12 *)

\* The lane sequence ExtractFeatureValues was last called on, and the three
\* blocks computed for it.
LastSequence == obstacle.lane_sequence[i]
LastObstacleBlock == SetObstacleFeatureValues(obstacle, frame_length)
LastLaneBlock == SetLaneFeatureValues(obstacle, LastSequence)
LastInteractionBlocks ==
    {SetInteractionFeatureValues(store, LastSequence, ub_fwd, ub_bwd).values :
        ub_fwd \in NullDerefOutcomes, ub_bwd \in NullDerefOutcomes}

\* C12: the vector ExtractFeatureValues left, when of the full length, holds
\* the obstacle block at indices [0, OBSTACLE_FEATURE_SIZE), the interaction
\* block at the next 8 and the lane block after them; when the obstacle block
\* has the wrong size the vector is empty, and when the lane block has, the
\* vector ends with the interaction block.
C12_BlocksInOrder ==
    (pc \in {"loop", "done"} /\ i > 0) =>
        \E interaction_feature_values \in LastInteractionBlocks :
            IF Len(LastObstacleBlock) # OBSTACLE_FEATURE_SIZE
            THEN feature_values = <<>>
            ELSE /\ Len(interaction_feature_values) = 8
                 /\ Len(feature_values) =
                       IF Len(LastLaneBlock) # 4 * LANE_POINTS_SIZE
                       THEN OBSTACLE_FEATURE_SIZE + 8
                       ELSE OBSTACLE_FEATURE_SIZE + 8 + 4 * LANE_POINTS_SIZE
                 /\ \A k \in 0..(Len(feature_values) - 1) :
                       At(feature_values, k) =
                           IF k < OBSTACLE_FEATURE_SIZE THEN At(LastObstacleBlock, k)
                           ELSE IF k < OBSTACLE_FEATURE_SIZE + 8
                           THEN At(interaction_feature_values, k - OBSTACLE_FEATURE_SIZE)
                           ELSE At(LastLaneBlock, k - OBSTACLE_FEATURE_SIZE - 8)

\* A vector of the full length, of three blocks that begin differently.
C12_Witness ==
    /\ pc = "loop" /\ i > 0
    /\ Len(feature_values) = FullFeatureSize
    /\ LastSequence.nearby_obstacle # <<>>
    /\ At(feature_values, 0) # At(feature_values, OBSTACLE_FEATURE_SIZE)
    /\ At(feature_values, 0) # At(feature_values, OBSTACLE_FEATURE_SIZE + 8)
    /\ At(feature_values, OBSTACLE_FEATURE_SIZE) # At(feature_values, OBSTACLE_FEATURE_SIZE + 8)

-----------------------------------------------------------------------------
(* C13 *)

\* has_data of frame k of the window, as emitted after the 23 summary values.
HasData(k) == At(feature_values, 23 + 9 * k)

\* Observation k of the history is visited by the walk and has position,
\* velocity, acceleration and heading.
UsableFrame(k) ==
    /\ k < HorizonEnd(obstacle, 0)
    /\ obstacle.history[k + 1].init
    /\ obstacle.history[k + 1].has_position
    /\ obstacle.history[k + 1].has_velocity
    /\ obstacle.history[k + 1].has_acceleration
    /\ obstacle.history[k + 1].has_velocity_heading

\* C13: in the emitted window every flag is 0 or 1, a flag is 1 only for a
\* frame whose observation exists, was visited and has position, velocity,
\* acceleration and heading, and after a flag of 0 every later flag is 0.
C13_HasDataFlags ==
    (pc = "obstacle_return" /\ feature_values # <<>>) =>
        \A k \in 0..(frame_length - 1) :
            /\ HasData(k) \in {Dbl(0), Dbl(1)}
            /\ HasData(k) = Dbl(1) => UsableFrame(k)
            /\ \A j \in (k + 1)..(frame_length - 1) :
                  HasData(k) = Dbl(0) => HasData(j) = Dbl(0)

-----------------------------------------------------------------------------
(* C14 *)

\* The lane-attributed samples in the order collected, most recent first:
\* the indices into the history of the visited features that carry them.
RECURSIVE SampleIndices(_)
SampleIndices(k) ==
    IF k >= HorizonEnd(obstacle, 0) THEN <<>>
    ELSE (IF k \in LaneAttributed(obstacle) THEN <<k>> ELSE <<>>) \o SampleIndices(k + 1)

\* The mean of five numbers.
MeanOfFive(n) == Div(Dbl(n[1] + n[2] + n[3] + n[4] + n[5]), Dbl(5))

\* mean(samples 0..4) - mean(samples 5..9) of a field of the lane feature.
ThetaDelta ==
    Sub(MeanOfFive([k \in 1..5 |-> obstacle.history[SampleIndices(0)[k] + 1].angle_diff]),
        MeanOfFive([k \in 1..5 |-> obstacle.history[SampleIndices(0)[k + 5] + 1].angle_diff]))
LaneOffsetDelta ==
    Sub(MeanOfFive([k \in 1..5 |-> obstacle.history[SampleIndices(0)[k] + 1].lane_l]),
        MeanOfFive([k \in 1..5 |-> obstacle.history[SampleIndices(0)[k + 5] + 1].lane_l]))

\* C14: with fewer than ten samples the angle-diff delta and its rate
\* (values 3, 4 of the summary), the lane-offset delta and its rate (8, 9)
\* and the current rates of the boundary distances (15, 18) are 0, whatever
\* the length of the history; with ten samples or more the two deltas are
\* mean(samples 0..4) - mean(samples 5..9).
C14_DeltasNeedTenSamples ==
    (pc = "obstacle_return" /\ feature_values # <<>>) =>
        IF Len(SampleIndices(0)) < 10
        THEN \A k \in {3, 4, 8, 9, 15, 18} : At(feature_values, k) = Dbl(0)
        ELSE /\ At(feature_values, 3) = ThetaDelta
             /\ At(feature_values, 8) = LaneOffsetDelta

-----------------------------------------------------------------------------
(* C15 *)

\* The model run made from the vector Evaluate holds.
LastRun == runs[Len(runs)]

\* C15: of the two inputs of a model run, the obstacle matrix is one row of
\* the values at indices [0, OBSTACLE_FEATURE_SIZE) of the vector, in order,
\* and the lane matrix has LANE_POINTS_SIZE rows of four values, row k the
\* four values of lane point k, i.e. entry (k, c) the value 4 * k + c of the
\* lane block; the interaction values are in neither. Values as floats.
C15_MatricesAreSlices ==
    (pc \in {"loop", "done"} /\ i > 0 /\ ~offline
        /\ Len(feature_values) = FullFeatureSize) =>
        /\ Len(LastRun.obs_feature_mat) = 1
        /\ Len(LastRun.obs_feature_mat[1]) = OBSTACLE_FEATURE_SIZE
        /\ \A c \in 0..(OBSTACLE_FEATURE_SIZE - 1) :
              At(LastRun.obs_feature_mat[1], c) = StaticCastFloat(At(feature_values, c))
        /\ Len(LastRun.lane_feature_mat) = LANE_POINTS_SIZE
        /\ \A k \in 0..(LANE_POINTS_SIZE - 1) :
              /\ Len(At(LastRun.lane_feature_mat, k)) = 4
              /\ \A c \in 0..3 :
                    At(At(LastRun.lane_feature_mat, k), c) =
                        StaticCastFloat(At(feature_values,
                                           OBSTACLE_FEATURE_SIZE + 8 + 4 * k + c))

=============================================================================
